---- MODULE Spec2Model ----
(***************************************************************************)
(* Model of the snowflake-mcp bridge.                                      *)
(*                                                                         *)
(* Two server variants of the repository are modelled over one set of      *)
(* variables:                                                              *)
(*   Spec         src/index.js: one module-level connection shared by all  *)
(*                requests, hand-written JSON-RPC dispatch on POST /mcp.   *)
(*   SpecGateway  src/unnamed/part_002: runQuery opens one connection per  *)
(*                call, the run_query handler applies the `forbidden`      *)
(*                filter first.                                            *)
(* The snowflake driver is the environment: it fires the connect and       *)
(* complete callbacks it was given, each with an error or a success.       *)
(***************************************************************************)
EXTENDS Integers, Sequences, FiniteSets, TLC

VARIABLES
    req,     \* per request: the route handler's / tool handler's position and locals
    res,     \* per request: the HTTP response object
    conns,   \* the connection handles created so far (handle = index)
    stmts,   \* statements handed to connection.execute, complete callback pending
    express  \* the major version of the express package the server runs on

vars == <<req, res, conns, stmts, express>>

\* ---------------------------------------------------------------- bounds
\* Number of HTTP requests / tool invocations that may be in flight.
NumReqs == 2

Reqs == 1..NumReqs

\* ------------------------------------------------------------ JSON values
\* A JavaScript value as a tagged tuple, so values of different types compare.
JUndefined == <<"undefined">>
JNull == <<"null">>
JNum(n) == <<"number", n>>
JStr(s) == <<"string", s>>

IsString(v) == v[1] = "string"

\* A template literal `t1${v1}t2...`: its literal texts and the values
\* interpolated between them.
JTemplate(texts, values) == <<"template", texts, values>>

\* String(v) is the empty string: "", [], an array of one element that is
\* null, undefined or renders empty, a template whose texts and values all
\* render empty. undefined, null, numbers and objects render to a text.
RECURSIVE RendersEmpty(_)
RendersEmpty(v) ==
    CASE v[1] = "string" -> v[2] = ""
      [] v[1] = "array" ->
            \/ Len(v[2]) = 0
            \/ /\ Len(v[2]) = 1
               /\ \/ v[2][1][1] \in {"null", "undefined"}
                  \/ RendersEmpty(v[2][1])
      [] v[1] = "template" ->
            /\ \A i \in DOMAIN v[2] : v[2][i] = ""
            /\ \A i \in DOMAIN v[3] : RendersEmpty(v[3][i])
      [] OTHER -> FALSE

\* JavaScript truthiness (`!x`, `x || y`), applied to method names, messages
\* and rows: undefined, null, 0, 0n and "" are falsy, arrays and objects truthy;
\* a template literal is a string and falsy when its text is empty.
Truthy(v) ==
    CASE v[1] = "undefined" -> FALSE
      [] v[1] = "null" -> FALSE
      [] v[1] = "number" -> v[2] # 0
      [] v[1] = "bigint" -> v[2] # 0
      [] v[1] = "string" -> v[2] # ""
      [] v[1] = "template" -> ~RendersEmpty(v)
      [] OTHER -> TRUE

\* ----------------------------------------------------- SQL text, characters
\* SQL text is a sequence of one-character strings.
UpperLetters ==
    {"A","B","C","D","E","F","G","H","I","J","K","L","M",
     "N","O","P","Q","R","S","T","U","V","W","X","Y","Z"}
LowerLetters ==
    {"a","b","c","d","e","f","g","h","i","j","k","l","m",
     "n","o","p","q","r","s","t","u","v","w","x","y","z"}
Digits == {"0","1","2","3","4","5","6","7","8","9"}

LowerToUpper ==
    [c \in LowerLetters |->
        CASE c = "a" -> "A" [] c = "b" -> "B" [] c = "c" -> "C" [] c = "d" -> "D"
          [] c = "e" -> "E" [] c = "f" -> "F" [] c = "g" -> "G" [] c = "h" -> "H"
          [] c = "i" -> "I" [] c = "j" -> "J" [] c = "k" -> "K" [] c = "l" -> "L"
          [] c = "m" -> "M" [] c = "n" -> "N" [] c = "o" -> "O" [] c = "p" -> "P"
          [] c = "q" -> "Q" [] c = "r" -> "R" [] c = "s" -> "S" [] c = "t" -> "T"
          [] c = "u" -> "U" [] c = "v" -> "V" [] c = "w" -> "W" [] c = "x" -> "X"
          [] c = "y" -> "Y" [] c = "z" -> "Z"]

\* The /i flag: both sides are canonicalised to upper case before comparing.
Canonicalize(c) == IF c \in LowerLetters THEN LowerToUpper[c] ELSE c

\* \w of a JavaScript regular expression: [A-Za-z0-9_].
IsWordChar(c) == c \in UpperLetters \cup LowerLetters \cup Digits \cup {"_"}

\* \b at position p of s (between s[p] and s[p+1]; 0 is the start, Len(s) the end):
\* exactly one side is a word character.
WordBoundary(s, p) ==
    LET before == p >= 1 /\ IsWordChar(s[p])
        after == p < Len(s) /\ IsWordChar(s[p + 1])
    IN before # after

\* The alternation (UPDATE|DELETE|INSERT|MERGE|DROP|ALTER|TRUNCATE).
ForbiddenVerbs ==
    { <<"U","P","D","A","T","E">>,
      <<"D","E","L","E","T","E">>,
      <<"I","N","S","E","R","T">>,
      <<"M","E","R","G","E">>,
      <<"D","R","O","P">>,
      <<"A","L","T","E","R">>,
      <<"T","R","U","N","C","A","T","E">> }

\* verb matches s case-insensitively, starting after position p.
MatchesAt(s, p, verb) ==
    /\ p + Len(verb) <= Len(s)
    /\ \A k \in 1..Len(verb) : Canonicalize(s[p + k]) = verb[k]

\* forbidden.test(sql) had the regex been written without the two \b.
ForbiddenNoBoundary(s) ==
    \E p \in 0..Len(s) : \E verb \in ForbiddenVerbs : MatchesAt(s, p, verb)

\* forbidden.test(sql): the regex has no g flag, so the test is stateless and
\* succeeds iff some start position matches \b, a verb, \b.
Forbidden(s) ==
    \E p \in 0..Len(s) : \E verb \in ForbiddenVerbs :
        /\ WordBoundary(s, p)
        /\ MatchesAt(s, p, verb)
        /\ WordBoundary(s, p + Len(verb))

\* ------------------------------------------------------------- requests
\* SQL texts used by the requests.
SqlSelect1 == <<"S","E","L","E","C","T"," ","1">>
SqlSelect2 == <<"S","E","L","E","C","T"," ","2">>
SqlDelete == <<"D","E","L","E","T","E"," ","F","R","O","M"," ","t">>

\* req.body after express.json(): `defined` is FALSE when there is no body.
\* params is flattened: hasParams, name, hasArguments, sql.
Body(id, method, hasParams, name, hasArguments, sql) ==
    [defined |-> TRUE, id |-> id, method |-> method, hasParams |-> hasParams,
     name |-> name, hasArguments |-> hasArguments, sql |-> sql]

NoBody ==
    [defined |-> FALSE, id |-> JUndefined, method |-> JUndefined, hasParams |-> FALSE,
     name |-> JUndefined, hasArguments |-> FALSE, sql |-> JUndefined]

\* The id request r sends when it sends a number.
IdOf(r) == JNum(6 + r)

IdsOf(r) == {JUndefined, JNull, IdOf(r)}

CallTool == JStr("callTool")
RunQueryName == JStr("run_query")

\* The request bodies POST /mcp is exercised with: every branch of the route,
\* and every kind of id on the paths that write the id in different places.
Bodies(r) ==
    {NoBody}
    \cup { Body(id, JUndefined, FALSE, JUndefined, FALSE, JUndefined) : id \in IdsOf(r) }
    \cup { Body(IdOf(r), JStr(""), FALSE, JUndefined, FALSE, JUndefined) }
    \cup { Body(id, JStr("unknownMethod"), FALSE, JUndefined, FALSE, JUndefined) :
             id \in IdsOf(r) }
    \cup { Body(IdOf(r), CallTool, FALSE, JUndefined, FALSE, JUndefined) }
    \cup { Body(IdOf(r), CallTool, TRUE, JStr("nope"), TRUE, JStr(SqlSelect1)) }
    \cup { Body(IdOf(r), CallTool, TRUE, RunQueryName, FALSE, JUndefined) }
    \cup { Body(IdOf(r), CallTool, TRUE, RunQueryName, TRUE, JNum(42)) }
    \cup { Body(IdOf(r), CallTool, TRUE, RunQueryName, TRUE, JStr(sql)) :
             sql \in {SqlSelect2, SqlDelete} }

\* The route handler's / tool handler's locals for a request that has not arrived.
\* sql is the handler's parameter, conn the connection handle it uses, outcome how
\* the tool handler's promise settled. lookups, invoked, creates and executes count
\* the registry lookups, handler calls, createConnection calls and
\* connection.execute calls made for the request; overtook records that its
\* statement completed while an earlier statement of another request was pending;
\* rows is the `rows` argument of the complete callback once it ran without error;
\* route is where the route of part_002 stands with transport.handleRequest;
\* transport is whether the transport of part_002 still works on the request;
\* settling is how the promise the awaiting code waits for was settled, until
\* the code after the `await` has run.
NoRows == <<"pending">>

IdleReq ==
    [phase |-> "idle", body |-> NoBody, sql |-> JUndefined, conn |-> 0,
     lookups |-> 0, invoked |-> 0, creates |-> 0, executes |-> 0,
     outcome |-> <<"none">>, settling |-> <<"none">>, rows |-> NoRows,
     overtook |-> FALSE, route |-> "none", transport |-> "none"]

\* ------------------------------------------------------------- responses
\* frames counts the complete event-stream frames written, partial says that an
\* incomplete frame was written after them, data is the JSON body or frame data.
NoResponse ==
    [headersSent |-> FALSE, status |-> 0, contentType |-> "", frames |-> 0,
     partial |-> FALSE, ended |-> FALSE, data |-> << >>]

\* Arrays and objects: an object is a sequence of <<key, value>> fields, in
\* insertion order.
JArr(elems) == <<"array", elems>>
JObj(fields) == <<"object", fields>>
JBigInt(n) == <<"bigint", n>>

\* JSON.stringify throws a TypeError on a BigInt anywhere in the value.
RECURSIVE Serializable(_)
Serializable(v) ==
    CASE v[1] = "bigint" -> FALSE
      [] v[1] = "array" -> \A i \in DOMAIN v[2] : Serializable(v[2][i])
      [] v[1] = "object" -> \A i \in DOMAIN v[2] : Serializable(v[2][i][2])
      [] v[1] = "result" -> Serializable(v[2])
      [] OTHER -> TRUE

\* The value a JSON text written by JSON.stringify holds: a field whose value is
\* undefined is left out, an undefined array element becomes null, everything
\* else keeps its value and its order.
RECURSIVE ToJson(_)
ToJson(v) ==
    CASE v[1] = "array" ->
            JArr([i \in DOMAIN v[2] |->
                    IF v[2][i] = JUndefined THEN JNull ELSE ToJson(v[2][i])])
      [] v[1] = "object" ->
            LET kept == SelectSeq(v[2], LAMBDA f : f[2] # JUndefined)
            IN JObj([i \in DOMAIN kept |-> <<kept[i][1], ToJson(kept[i][2])>>])
      [] v[1] = "result" -> <<"result", ToJson(v[2])>>
      [] OTHER -> v

\* JSON.stringify(value) as the text of a content block.
JsonText(v) == <<"text", ToJson(v)>>

\* JSON.stringify of an envelope: a key whose value is undefined is left out.
JsonStringify(obj) ==
    [k \in {key \in DOMAIN obj : obj[key] # JUndefined} |-> ToJson(obj[k])]

\* res.writeHead(200, text/event-stream); res.write("event: message\n");
\* res.write(`data: ${JSON.stringify(envelope)}\n\n`); res.end().
SseResponse(envelope) ==
    [headersSent |-> TRUE, status |-> 200, contentType |-> "text/event-stream",
     frames |-> 1, partial |-> FALSE, ended |-> TRUE,
     data |-> JsonStringify(envelope)]

\* res.writeHead(200, ...) and res.write("event: message\n") have run, then
\* JSON.stringify threw: the catch block's res.writeHead throws in turn
\* (headers already sent), so nothing more is written and res.end is not called.
PartialSseResponse ==
    [headersSent |-> TRUE, status |-> 200, contentType |-> "text/event-stream",
     frames |-> 0, partial |-> TRUE, ended |-> FALSE, data |-> << >>]

\* res.status(code).json(obj)
JsonResponse(code, obj) ==
    [headersSent |-> TRUE, status |-> code, contentType |-> "application/json",
     frames |-> 0, partial |-> FALSE, ended |-> TRUE, data |-> JsonStringify(obj)]

JError(code, message) == <<"error", code, message>>
JResult(value) == <<"result", value>>

\* --------------------------------------------------------------- driver
\* A connection handle as the driver sees it, with the calls made on it.
NewConnection ==
    [state |-> "created", connects |-> 0, executes |-> 0, destroys |-> 0]

\* What the warehouse answers to a statement: two rows determined by its text,
\* each an ordered mapping from column name to value.
RowsOf(sqlText) ==
    JArr(<< JObj(<< <<"SQL", sqlText>>, <<"N", JNum(1)>> >>),
            JObj(<< <<"SQL", JNull>>, <<"N", JNum(2)>> >>) >>)

\* The `rows` argument of the complete callback on success: a row array, nothing
\* (a statement that returns no row set), or rows that hold a BigInt.
RowKinds == {"some", "none", "bigint"}

DriverRows(kind, sqlText) ==
    CASE kind = "some" -> RowsOf(sqlText)
      [] kind = "none" -> JUndefined
      [] OTHER -> JArr(<< JObj(<< <<"SQL", sqlText>>, <<"N", JBigInt(1)>> >>) >>)

\* The Error objects the driver passes to callbacks.
ConnectError == [message |-> JStr("connect failed"), error |-> JUndefined]
ExecuteError == [message |-> JStr("execute failed"), error |-> JUndefined]

\* The outcomes the driver can report to a complete callback, whatever the
\* state of the connection: an error, or rows of any kind.
ExecuteOutcomes ==
    {<<"err", ExecuteError>>} \cup {<<"rows", kind>> : kind \in RowKinds}

\* The module-level `const connection = createConnection()` of index.js: handle 1.
GlobalConnection == 1

\* Every statement a request can have pending on the shared connection (the
\* state holds a subset).
PendingStatements ==
    [conn : {GlobalConnection}, sqlText : {b.sql : b \in UNION {Bodies(r) : r \in Reqs}},
     req : Reqs, seq : 1..NumReqs]

\* The statement record connection.execute queues: seq is its order on the connection.
Statement(c, sqlText, r) ==
    [conn |-> c, sqlText |-> sqlText, req |-> r, seq |-> conns[c].executes + 1]

\* stmt completes while a statement submitted before it is still pending.
Overtakes(stmt) == \E other \in stmts : other.seq < stmt.seq

\* -------------------------------------------------------- src/index.js
\* The complete callback kept in one shared slot that each call overwrites:
\* every completion settles the request that called execute last.
CallbackOwnerShared(stmt) ==
    (CHOOSE last \in stmts : \A other \in stmts : other.seq <= last.seq).req

\* Which request a pending statement's complete callback settles: the closure
\* created by that request's own handler call.
CallbackOwner(stmt) == stmt.req

\* `err.message || "Tool failed"` in the route's catch block.
CatchMessage(err) == IF Truthy(err.message) THEN err.message ELSE JStr("Tool failed")

\* A catch block whose error code follows the state of the shared connection.
ToolFailedByConnectionState(body, err) ==
    SseResponse([jsonrpc |-> JStr("2.0"), id |-> body.id,
                 error |-> JError(IF conns[GlobalConnection].state = "connecting"
                                  THEN -32000 ELSE -32603,
                                  CatchMessage(err))])

\* The frame the route's catch block writes.
ToolFailedResponse(body, err) ==
    SseResponse([jsonrpc |-> JStr("2.0"), id |-> body.id,
                 error |-> JError(-32000, CatchMessage(err))])

\* A success frame that also holds an `error` member.
ToolResultWithError(body, result) ==
    SseResponse([jsonrpc |-> JStr("2.0"), id |-> body.id, result |-> JResult(result),
                 error |-> JNull])

\* The frame written after `await tool.impl(toolArgs)` returned `result`.
ToolResultResponse(body, result) ==
    SseResponse([jsonrpc |-> JStr("2.0"), id |-> body.id, result |-> JResult(result)])

\* The "Unsupported method" frame answered through the catch block's code.
MethodNotFoundAsToolFailure(body) ==
    SseResponse([jsonrpc |-> JStr("2.0"), id |-> body.id,
                 error |-> JError(-32000, JStr("Method not found"))])

\* The "Unsupported method" frame.
MethodNotFoundResponse(body) ==
    SseResponse([jsonrpc |-> JStr("2.0"), id |-> body.id,
                 error |-> JError(-32601, JStr("Method not found"))])

\* res.status(400).json({ error: "Invalid request" })
InvalidRequestResponse == JsonResponse(400, [error |-> JStr("Invalid request")])

\* server._registeredTools.get(toolName), read as the route uses it: a map from
\* tool name to a tool whose impl is the registered handler. The one tool
\* registered is run_query.
RegisteredTool(toolName) == toolName = RunQueryName

\* The value the run_query handler of index.js resolves with: { rows }.
IndexResult(rows) == JObj(<< <<"rows", rows>> >>)

\* createConnection() at module load has called connection.connect(cb).
InitIndex ==
    /\ express \in {4, 5}
    /\ req = [r \in Reqs |-> IdleReq]
    /\ res = [r \in Reqs |-> NoResponse]
    /\ conns = << [NewConnection EXCEPT !.state = "connecting", !.connects = 1] >>
    /\ stmts = {}

\* The connect callback of createConnection: it only logs the outcome.
ConnectCallback ==
    /\ conns[GlobalConnection].state = "connecting"
    /\ \E ok \in BOOLEAN :
         conns' = [conns EXCEPT ![GlobalConnection].state =
                                    IF ok THEN "connected" ELSE "failed"]
    /\ UNCHANGED <<req, res, stmts, express>>

\* POST /mcp arrives for request r with this body (one of Bodies(r)).
Arrives(r, body) == req[r].phase = "idle"

\* app.post("/mcp"): body is missing or has no method.
PostInvalid(r, body) ==
    /\ Arrives(r, body)
    /\ ~body.defined \/ ~Truthy(body.method)
    /\ req' = [req EXCEPT ![r] = [@ EXCEPT !.phase = "done", !.body = body]]
    /\ res' = [res EXCEPT ![r] = InvalidRequestResponse]
    /\ UNCHANGED <<conns, stmts, express>>

\* app.post("/mcp"): a method other than callTool.
PostUnsupported(r, body) ==
    /\ Arrives(r, body)
    /\ body.defined /\ Truthy(body.method) /\ body.method # CallTool
    /\ req' = [req EXCEPT ![r] = [@ EXCEPT !.phase = "done", !.body = body]]
    /\ res' = [res EXCEPT ![r] = MethodNotFoundResponse(body)]
    /\ UNCHANGED <<conns, stmts, express>>

\* app.post("/mcp"): callTool without params. `body.params.name` throws a
\* TypeError before the try block; the async route handler's promise rejects.
\* The route writes nothing to the response.
PostNoParams(r, body) ==
    /\ Arrives(r, body)
    /\ body.defined /\ body.method = CallTool /\ ~body.hasParams
    /\ req' = [req EXCEPT ![r] = [@ EXCEPT !.phase = "threw", !.body = body]]
    /\ UNCHANGED <<res, conns, stmts, express>>

\* The promise of the async route handler given to app.post has rejected with
\* nothing sent: Express 5 passes the rejection to its error handler, which
\* answers 500 with an HTML page. Express 4 ignores the promise.
ExpressAnswersRejection(r) ==
    /\ express = 5
    /\ req[r].phase = "threw"
    /\ ~res[r].headersSent
    /\ res' = [res EXCEPT ![r] =
                 [headersSent |-> TRUE, status |-> 500,
                  contentType |-> "text/html", frames |-> 0,
                  partial |-> FALSE, ended |-> TRUE, data |-> << >>]]
    /\ UNCHANGED <<req, conns, stmts, express>>

\* app.post("/mcp"): callTool naming a tool the registry does not hold.
\* `Tool '${toolName}' not found`
ToolNotFoundMessage(toolName) == JTemplate(<<"Tool '", "' not found">>, <<toolName>>)

PostToolNotFound(r, body) ==
    /\ Arrives(r, body)
    /\ body.defined /\ body.method = CallTool /\ body.hasParams
    /\ ~RegisteredTool(body.name)
    /\ req' = [req EXCEPT ![r] = [@ EXCEPT !.phase = "done", !.body = body,
                                             !.lookups = @ + 1]]
    /\ res' = [res EXCEPT ![r] =
                 ToolFailedResponse(body,
                     [message |-> ToolNotFoundMessage(body.name),
                      error |-> JUndefined])]
    /\ UNCHANGED <<conns, stmts, express>>

\* The TypeError of `({ sql })` applied to undefined.
DestructureError ==
    [message |-> JStr("Cannot destructure property 'sql' of 'undefined' as it is undefined."),
     error |-> JUndefined]

\* app.post("/mcp"): callTool run_query with params.arguments undefined. The
\* handler's parameter pattern `({ sql })` throws a TypeError and tool.impl
\* returns a rejected promise; the route waits at `await`.
PostNoArguments(r, body) ==
    /\ Arrives(r, body)
    /\ body.defined /\ body.method = CallTool /\ body.hasParams
    /\ RegisteredTool(body.name) /\ ~body.hasArguments
    /\ req' = [req EXCEPT ![r] = [@ EXCEPT !.phase = "continuing", !.body = body,
                                          !.lookups = @ + 1, !.invoked = @ + 1,
                                          !.outcome = <<"rejected", DestructureError>>]]
    /\ UNCHANGED <<res, conns, stmts, express>>

\* app.post("/mcp"): callTool run_query, and connection.execute throws at once
\* (the driver may refuse a sqlText that is not a string before queueing it).
\* The throw inside the promise executor rejects the promise the handler
\* returns with the driver's Error; the route waits at `await`.
PostRunQueryRefused(r, body) ==
    /\ Arrives(r, body)
    /\ body.defined /\ body.method = CallTool /\ body.hasParams
    /\ RegisteredTool(body.name) /\ body.hasArguments
    /\ ~IsString(body.sql)
    /\ LET reason == [message |-> JStr("invalid sqlText"), error |-> JUndefined]
       IN req' = [req EXCEPT ![r] = [@ EXCEPT !.phase = "continuing", !.body = body,
                                             !.sql = body.sql,
                                             !.lookups = @ + 1, !.invoked = @ + 1,
                                             !.executes = @ + 1,
                                             !.conn = GlobalConnection,
                                             !.settling = <<"rejected", reason>>]]
    /\ conns' = [conns EXCEPT ![GlobalConnection].executes = @ + 1]
    /\ UNCHANGED <<res, stmts, express>>

\* app.post("/mcp"): callTool run_query. tool.impl(toolArgs) calls
\* connection.execute({ sqlText: sql, complete }) on the shared connection and
\* the route awaits the promise.
PostRunQuery(r, body) ==
    /\ Arrives(r, body)
    /\ body.defined /\ body.method = CallTool /\ body.hasParams
    /\ RegisteredTool(body.name) /\ body.hasArguments
    /\ req' = [req EXCEPT ![r] = [@ EXCEPT !.phase = "awaitExecute", !.body = body,
                                             !.sql = body.sql,
                                             !.lookups = @ + 1, !.invoked = @ + 1,
                                             !.executes = @ + 1,
                                             !.conn = GlobalConnection]]
    /\ conns' = [conns EXCEPT ![GlobalConnection].executes = @ + 1]
    /\ stmts' = stmts \cup {Statement(GlobalConnection, body.sql, r)}
    /\ UNCHANGED <<res, express>>

\* The driver calls `complete(err, stmt, rows)` of a pending statement: the
\* callback calls reject({ error: err.message }) or resolve({ rows }); the
\* route still waits at `await`.
ExecuteComplete(stmt) ==
    /\ stmt \in stmts
    /\ stmt.conn = GlobalConnection
    /\ stmts' = stmts \ {stmt}
    /\ LET r == CallbackOwner(stmt)
       IN \E out \in ExecuteOutcomes :
            IF out[1] = "err"
            THEN \* reject({ error: err.message }): the rejection has no message
                 LET reason == [message |-> JUndefined, error |-> out[2].message]
                 IN req' = [req EXCEPT ![r] = [@ EXCEPT !.phase = "continuing",
                                       !.settling = <<"rejected", reason>>,
                                       !.overtook = Overtakes(stmt)]]
            ELSE \* resolve({ rows })
                 LET rows == DriverRows(out[2], stmt.sqlText)
                 IN req' = [req EXCEPT ![r] = [@ EXCEPT !.phase = "continuing",
                                       !.rows = rows,
                                       !.settling = <<"resolved", IndexResult(rows)>>,
                                       !.overtook = Overtakes(stmt)]]
    /\ UNCHANGED <<res, conns, express>>

\* The route continues after `await tool.impl(toolArgs)`: with a result it
\* writes the success frame, unless JSON.stringify throws after the head and
\* the event line went out; with a rejection the catch block answers.
RouteContinues(r) ==
    /\ req[r].phase = "continuing"
    /\ LET settled == IF req[r].outcome # <<"none">> THEN req[r].outcome
                      ELSE req[r].settling
           body == req[r].body
           written == settled[1] = "rejected" \/ Serializable(settled[2])
       IN /\ req' = [req EXCEPT ![r] = [@ EXCEPT
                         !.phase = IF written THEN "done" ELSE "threw",
                         !.outcome = settled,
                         !.settling = <<"none">>]]
          /\ res' = [res EXCEPT ![r] =
                       IF settled[1] = "rejected"
                       THEN ToolFailedResponse(body, settled[2])
                       ELSE IF Serializable(settled[2])
                            THEN ToolResultResponse(body, settled[2])
                            ELSE PartialSseResponse]
    /\ UNCHANGED <<conns, stmts, express>>

NextIndex ==
    \/ ConnectCallback
    \/ \E r \in Reqs : \E body \in Bodies(r) : PostInvalid(r, body)
    \/ \E r \in Reqs : \E body \in Bodies(r) : PostUnsupported(r, body)
    \/ \E r \in Reqs : \E body \in Bodies(r) : PostNoParams(r, body)
    \/ \E r \in Reqs : \E body \in Bodies(r) : PostToolNotFound(r, body)
    \/ \E r \in Reqs : \E body \in Bodies(r) : PostNoArguments(r, body)
    \/ \E r \in Reqs : \E body \in Bodies(r) : PostRunQueryRefused(r, body)
    \/ \E r \in Reqs : \E body \in Bodies(r) : PostRunQuery(r, body)
    \/ \E stmt \in PendingStatements : ExecuteComplete(stmt)
    \/ \E r \in Reqs : RouteContinues(r)
    \/ \E r \in Reqs : ExpressAnswersRejection(r)

Spec == InitIndex /\ [][NextIndex]_vars

\* ------------------------------------------------- src/unnamed/part_002
\* SQL texts the run_query tool is called with: DROP between neighbours that
\* are or are not word characters, the other verbs in upper, lower and mixed
\* case, and texts that hold a verb only inside a longer word.
Pads == {<< >>, <<";">>}

SqlTexts ==
    { pre \o <<"D","R","O","P">> \o post : pre \in Pads, post \in Pads }
    \cup { <<"U","P","D","A","T","E">>, <<"d","e","l","e","t","e">>,
           <<"I","n","s","e","r","t">>, <<"M","E","R","G","E">>,
           <<"a","l","t","e","r">>, <<"T","R","U","N","C","A","T","E">>,
           <<"_","D","R","O","P">>, SqlSelect1 }

\* The texts of SqlTexts on which forbidden.test(sql) is true.
ForbiddenTexts == { sql \in SqlTexts : Forbidden(sql) }

\* The tools/call request the transport hands to the run_query handler.
ToolCallBody(r, sql) ==
    Body(IdOf(r), JStr("tools/call"), TRUE, RunQueryName, TRUE, JStr(sql))

\* `rows || []`
RowsOrEmpty(rows) == IF Truthy(rows) THEN rows ELSE JArr(<< >>)

\* The ToolResult the run_query handler returns: one text content block.
ToolResult(rows) ==
    JObj(<< <<"content",
              JArr(<< JObj(<< <<"type", JStr("text")>>,
                              <<"text", JsonText(rows)>> >>) >>)>> >>)

\* How the handler's promise settles once runQuery resolved with rows:
\* JSON.stringify(rows) throws on a BigInt, else the ToolResult is returned.
HandlerReturn(rows) ==
    IF Serializable(rows)
    THEN <<"resolved", ToolResult(rows)>>
    ELSE <<"rejected", [message |-> JStr("Do not know how to serialize a BigInt"),
                        error |-> JUndefined]>>

\* express is not read by this variant: the route catches what is thrown.
InitGateway ==
    /\ express = 4
    /\ req = [r \in Reqs |-> IdleReq]
    /\ res = [r \in Reqs |-> NoResponse]
    /\ conns = << >>
    /\ stmts = {}

\* run_query handler: `if (forbidden.test(sql)) throw new Error(...)`.
HandlerRejects(r, sql) ==
    /\ req[r].phase = "idle"
    /\ sql \in SqlTexts
    /\ sql \in ForbiddenTexts
    /\ req' = [req EXCEPT ![r] = [@ EXCEPT !.phase = "done",
                   !.body = ToolCallBody(r, sql), !.sql = JStr(sql),
                   !.invoked = @ + 1,
                   !.outcome = <<"rejected",
                       [message |-> JStr("Only read-only SELECT queries are allowed."),
                        error |-> JUndefined]>>]]
    /\ UNCHANGED <<res, conns, stmts, express>>

\* run_query handler passes the filter and calls runQuery(sql):
\* createConnection(), then connection.connect(callback).
HandlerRunQuery(r, sql) ==
    /\ req[r].phase = "idle"
    /\ sql \in SqlTexts
    /\ sql \notin ForbiddenTexts
    /\ conns' = Append(conns, [NewConnection EXCEPT !.state = "connecting",
                                                    !.connects = 1])
    /\ req' = [req EXCEPT ![r] = [@ EXCEPT !.phase = "awaitConnect",
                   !.body = ToolCallBody(r, sql), !.sql = JStr(sql),
                   !.invoked = @ + 1,
                   !.creates = @ + 1, !.conn = Len(conns) + 1]]
    /\ UNCHANGED <<res, stmts, express>>

\* A connect callback that answers an error with a second connect attempt.
ConnectFailedRetry(r) ==
    /\ req[r].phase = "awaitConnect"
    /\ conns[req[r].conn].connects < 2
    /\ conns' = [conns EXCEPT ![req[r].conn].connects = @ + 1]
    /\ UNCHANGED <<req, res, stmts, express>>

\* runQuery's connect callback with an error: `return reject(err)`; the
\* handler still waits at `await runQuery(sql)`.
ConnectFailed(r) ==
    /\ req[r].phase = "awaitConnect"
    /\ conns' = [conns EXCEPT ![req[r].conn].state = "failed"]
    /\ req' = [req EXCEPT ![r] = [@ EXCEPT !.phase = "continuing",
                   !.settling = <<"rejected", ConnectError>>]]
    /\ UNCHANGED <<res, stmts, express>>

\* runQuery's connect callback without error: connection.execute({sqlText, complete}).
ConnectSucceeded(r) ==
    /\ req[r].phase = "awaitConnect"
    /\ conns' = [conns EXCEPT ![req[r].conn] =
                   [@ EXCEPT !.state = "connected", !.executes = @ + 1]]
    /\ req' = [req EXCEPT ![r] = [@ EXCEPT !.phase = "awaitExecute",
                   !.executes = @ + 1]]
    /\ stmts' = stmts \cup {Statement(req[r].conn, req[r].sql, r)}
    /\ UNCHANGED <<res, express>>

\* runQuery's complete callback: connection.destroy(() => {}), then reject(err)
\* or resolve(rows || []); the handler still waits at `await runQuery(sql)`.
QueryComplete(r) ==
    /\ req[r].phase = "awaitExecute"
    /\ \E stmt \in {st \in stmts : CallbackOwner(st) = r} :
         /\ stmts' = stmts \ {stmt}
         /\ \E out \in ExecuteOutcomes :
              req' = [req EXCEPT ![r] = [@ EXCEPT !.phase = "continuing",
                        !.rows = IF out[1] = "err" THEN NoRows
                                 ELSE DriverRows(out[2], stmt.sqlText),
                        !.settling =
                            IF out[1] = "err"
                            THEN <<"rejected", out[2]>>
                            ELSE <<"resolved",
                                   RowsOrEmpty(DriverRows(out[2], stmt.sqlText))>>]]
         /\ conns' = [conns EXCEPT ![stmt.conn] =
                        [@ EXCEPT !.state = "destroying", !.destroys = @ + 1]]
    /\ UNCHANGED <<res, express>>

\* The handler continues after `await runQuery(sql)`: a rejection rejects the
\* handler's promise, rows are wrapped in one text content block.
HandlerContinues(r) ==
    /\ req[r].phase = "continuing"
    /\ req' = [req EXCEPT ![r] = [@ EXCEPT !.phase = "done",
                   !.outcome = IF req[r].settling[1] = "rejected"
                               THEN req[r].settling
                               ELSE HandlerReturn(req[r].settling[2]),
                   !.settling = <<"none">>]]
    /\ UNCHANGED <<res, conns, stmts, express>>

\* The error the driver can pass to the callback of destroy.
DestroyError == [message |-> JStr("destroy failed"), error |-> JUndefined]

\* A destroy callback that rejects with the error it is given.
OutcomeReplacedByDestroyError(outcome, failed) ==
    IF failed THEN <<"rejected", DestroyError>> ELSE outcome

\* The outcome of the invocation after the callback given to destroy,
\* `() => {}`, has run: the callback ignores its arguments.
OutcomeAfterDestroy(outcome, failed) == outcome

\* The driver calls the callback of connection.destroy, with an error or without.
DestroyCallback(r) ==
    /\ req[r].conn # 0
    /\ conns[req[r].conn].state = "destroying"
    /\ \E failed \in BOOLEAN :
         /\ conns' = [conns EXCEPT ![req[r].conn].state =
                        IF failed THEN "destroyFailed" ELSE "destroyed"]
         /\ req' = [req EXCEPT ![r].outcome = OutcomeAfterDestroy(@, failed)]
    /\ UNCHANGED <<res, stmts, express>>

\* `req.body?.id ?? null`
IdOrNull(body) == IF body.id \in {JUndefined, JNull} THEN JNull ELSE body.id

\* res.status(500).json({ jsonrpc, error: { code: -32603, ... }, id })
InternalErrorResponse(body) ==
    JsonResponse(500, [jsonrpc |-> JStr("2.0"),
                       error |-> JError(-32603, JStr("Internal server error")),
                       id |-> IdOrNull(body)])

\* Bodies the transport never hands to the run_query handler: no body, and
\* a method that is no tool call.
RefusedBodies(r) ==
    {NoBody}
    \cup {Body(id, JStr("ping"), FALSE, JUndefined, FALSE, JUndefined) : id \in IdsOf(r)}

\* What the catch block of the route does with the response.
RouteCatch(response, body) ==
    IF ~response.headersSent THEN InternalErrorResponse(body) ELSE response

\* The SQL texts the route of part_002 is exercised with: one the
\* filter rejects and one it lets through.
RouteTexts == {<<"D","R","O","P">>, SqlSelect1}

\* The bodies POST /mcp of part_002 is exercised with: the bodies the
\* transport never hands to the run_query handler and the tool calls.
RouteBodies(r) ==
    RefusedBodies(r) \cup {ToolCallBody(r, sql) : sql \in RouteTexts}

\* POST /mcp arrives: the route calls transport.handleRequest(req, res,
\* req.body) and waits at `await`; the transport starts to work on the request.
RouteReceives(r, body) ==
    /\ req[r].route = "none"
    /\ body \in RouteBodies(r)
    /\ req' = [req EXCEPT ![r] = [@ EXCEPT !.body = body, !.route = "handling",
                                          !.transport = "active"]]
    /\ UNCHANGED <<res, conns, stmts, express>>

\* The transport hands a tools/call of run_query to the handler, which refuses
\* the SQL text.
DispatchRejected(r, sql) ==
    /\ req[r].transport = "active"
    /\ req[r].body = ToolCallBody(r, sql)
    /\ HandlerRejects(r, sql)

\* The transport hands a tools/call of run_query to the handler, which runs
\* the SQL text.
DispatchRunQuery(r, sql) ==
    /\ req[r].transport = "active"
    /\ req[r].body = ToolCallBody(r, sql)
    /\ HandlerRunQuery(r, sql)

\* The response after the transport wrote the head of an event stream.
HeadWritten(response) ==
    [response EXCEPT !.headersSent = TRUE, !.status = 200,
                     !.contentType = "text/event-stream"]

\* The transport writes the head of an event-stream response, at any moment
\* of its work on the request: before or after it called the handler, before
\* or after handleRequest settled.
TransportWritesHead(r) ==
    /\ req[r].transport = "active"
    /\ ~res[r].headersSent
    /\ res' = [res EXCEPT ![r] = HeadWritten(@)]
    /\ UNCHANGED <<req, conns, stmts, express>>

\* The run_query handler has settled; the transport writes the frame that
\* carries the outcome and ends the response, before or after handleRequest
\* settled.
TransportResponds(r) ==
    /\ req[r].transport = "active"
    /\ req[r].phase = "done"
    /\ ~res[r].ended
    /\ res' = [res EXCEPT ![r] =
                 SseResponse([jsonrpc |-> JStr("2.0"), id |-> req[r].body.id,
                              result |-> JResult(
                                  IF req[r].outcome[1] = "resolved"
                                  THEN req[r].outcome[2]
                                  ELSE JObj(<< <<"isError", JStr("true")>> >>))])]
    /\ UNCHANGED <<req, conns, stmts, express>>

\* The transport has nothing more to do for the request: it writes to the
\* response no more.
TransportFinishes(r) ==
    /\ req[r].transport = "active"
    /\ req' = [req EXCEPT ![r].transport = "finished"]
    /\ UNCHANGED <<res, conns, stmts, express>>

\* The promise of transport.handleRequest resolves, whatever the transport has
\* written by then: the route runs on from its `await` and returns.
RouteReturns(r) ==
    /\ req[r].route = "handling"
    /\ req' = [req EXCEPT ![r].route = "returned"]
    /\ UNCHANGED <<res, conns, stmts, express>>

\* The promise of transport.handleRequest rejects, whatever the transport has
\* written by then: the route runs on in its catch block, which answers when
\* no head was sent and leaves the response alone otherwise.
TransportThrows(r) ==
    /\ req[r].route = "handling"
    /\ req' = [req EXCEPT ![r].route = "caught"]
    /\ res' = [res EXCEPT ![r] = RouteCatch(@, req[r].body)]
    /\ UNCHANGED <<conns, stmts, express>>

NextGateway ==
    \/ \E r \in Reqs : \E sql \in SqlTexts : HandlerRejects(r, sql)
    \/ \E r \in Reqs : \E sql \in SqlTexts : HandlerRunQuery(r, sql)
    \/ \E r \in Reqs : ConnectFailed(r)
    \/ \E r \in Reqs : ConnectSucceeded(r)
    \/ \E r \in Reqs : QueryComplete(r)
    \/ \E r \in Reqs : HandlerContinues(r)
    \/ \E r \in Reqs : DestroyCallback(r)

\* The tool handler and runQuery of part_002, on every SQL text.
SpecGateway == InitGateway /\ [][NextGateway]_vars

\* The driver eventually calls every callback it was given (connect, complete)
\* and the code after an `await` runs once the awaited promise has settled.
SpecGatewayFair ==
    /\ SpecGateway
    /\ \A r \in Reqs :
         /\ WF_vars(ConnectFailed(r) \/ ConnectSucceeded(r))
         /\ WF_vars(QueryComplete(r))
         /\ WF_vars(HandlerContinues(r))

NextRoute ==
    \/ \E r \in Reqs : \E body \in RouteBodies(r) : RouteReceives(r, body)
    \/ \E r \in Reqs : \E sql \in RouteTexts : DispatchRejected(r, sql)
    \/ \E r \in Reqs : \E sql \in RouteTexts : DispatchRunQuery(r, sql)
    \/ \E r \in Reqs : ConnectFailed(r)
    \/ \E r \in Reqs : ConnectSucceeded(r)
    \/ \E r \in Reqs : QueryComplete(r)
    \/ \E r \in Reqs : HandlerContinues(r)
    \/ \E r \in Reqs : DestroyCallback(r)
    \/ \E r \in Reqs : TransportWritesHead(r)
    \/ \E r \in Reqs : TransportResponds(r)
    \/ \E r \in Reqs : TransportFinishes(r)
    \/ \E r \in Reqs : RouteReturns(r)
    \/ \E r \in Reqs : TransportThrows(r)

\* The whole server of part_002: the route and the transport around the tool
\* handler and runQuery.
SpecRoute == InitGateway /\ [][NextRoute]_vars

\* =================================================================== claims
\* s[i..j] is a word of s: a maximal run of word characters.
IsWordAt(s, i, j) ==
    /\ i <= j
    /\ \A k \in i..j : IsWordChar(s[k])
    /\ (i = 1 \/ ~IsWordChar(s[i - 1]))
    /\ (j = Len(s) \/ ~IsWordChar(s[j + 1]))

UpperCase(w) == [k \in 1..Len(w) |-> Canonicalize(w[k])]

\* s contains a denylisted verb as a whole word, in any letter case.
ContainsDenylistedWord(s) ==
    \E i \in 1..Len(s) : \E j \in i..Len(s) :
        IsWordAt(s, i, j) /\ UpperCase(SubSeq(s, i, j)) \in ForbiddenVerbs

\* The SQL texts of the requests that contain a denylisted verb as a whole word.
DenylistedTexts ==
    { s \in SqlTexts \cup {SqlSelect1, SqlSelect2, SqlDelete} : ContainsDenylistedWord(s) }

\* The SQL texts that contain a verb, but only inside a longer word.
EmbeddedVerbTexts == { s \in SqlTexts \ DenylistedTexts : ForbiddenNoBoundary(s) }

\* r has arrived as a call of the run_query tool with a string for sql.
IsRunQueryCall(r) ==
    /\ req[r].phase # "idle"
    /\ req[r].body.defined /\ req[r].body.hasParams
    /\ req[r].body.name = RunQueryName
    /\ req[r].body.hasArguments
    /\ IsString(req[r].body.sql)

Finished(r) == req[r].phase \in {"done", "threw"}

ErrorCode(r) == res[r].data.error[2]
ErrorMessage(r) == res[r].data.error[3]

HasJsonRpcError(r) ==
    /\ "error" \in DOMAIN res[r].data
    /\ res[r].data.error[1] = "error"

\* The response of r carries the inbound id: the same value, or no id key
\* when the inbound body had none.
EchoesId(r) ==
    IF req[r].body.id = JUndefined
    THEN "id" \notin DOMAIN res[r].data
    ELSE "id" \in DOMAIN res[r].data /\ res[r].data.id = req[r].body.id

\* C1: a connection created for a run_query invocation has been destroyed
\* exactly once when the invocation has ended, whether by success, execute
\* failure or connect failure.
C1_ReleasedExactlyOnce ==
    \A r \in Reqs :
        (req[r].phase = "done" /\ req[r].creates > 0)
            => conns[req[r].conn].destroys = 1

\* C2: a run_query call whose SQL contains a denylisted verb as a whole word is
\* rejected with a failure, and no connection is created and execute is never
\* called for it.
C2_DenylistedNeverReachesWarehouse ==
    \A r \in Reqs :
        (IsRunQueryCall(r) /\ req[r].body.sql[2] \in DenylistedTexts)
            => /\ req[r].creates = 0
               /\ req[r].executes = 0
               /\ req[r].phase = "done"
               /\ req[r].outcome[1] = "rejected"

\* C3: a run_query call whose SQL contains no denylisted verb as a whole word is
\* not rejected by the filter: runQuery is called (one connection created) with
\* that exact SQL text, which is the text any statement submitted for it carries.
C3_AllowedSqlReachesRunQuery ==
    \A r \in Reqs :
        (IsRunQueryCall(r) /\ req[r].body.sql[2] \notin DenylistedTexts)
            => /\ req[r].creates = 1
               /\ req[r].sql = req[r].body.sql
               /\ \A stmt \in stmts :
                    CallbackOwner(stmt) = r => stmt.sqlText = req[r].body.sql
               /\ req[r].executes > 0 => conns[req[r].conn].executes = 1

\* C3 witness: SQL that contains a verb only inside a longer word has been
\* submitted to the warehouse.
C3_Witness ==
    \E r \in Reqs :
        /\ IsRunQueryCall(r)
        /\ req[r].body.sql[2] \in EmbeddedVerbTexts
        /\ \E stmt \in stmts : stmt.req = r /\ stmt.sqlText = req[r].body.sql

\* C4: every POST /mcp request that the route has finished with has a response
\* that was sent and ended, and the route never threw outside its try block.
C4_EveryRequestAnswered ==
    \A r \in Reqs :
        /\ req[r].phase # "threw"
        /\ Finished(r) => (res[r].headersSent /\ res[r].ended)

\* C5: no two invocations use the same connection handle.
C5_NoSharedConnection ==
    \A r1 \in Reqs : \A r2 \in Reqs :
        (r1 # r2 /\ req[r1].conn # 0 /\ req[r2].conn # 0)
            => req[r1].conn # req[r2].conn

\* C6: the response to a valid run_query call carries the id of its own request
\* and, when it carries a result, the rows of its own SQL, whatever the order in
\* which the warehouse completes the statements in flight.
C6_ResponsesPaired ==
    \A r \in Reqs :
        (IsRunQueryCall(r) /\ req[r].phase = "done")
            => /\ res[r].ended
               /\ EchoesId(r)
               /\ ("result" \in DOMAIN res[r].data) = (req[r].outcome[1] = "resolved")
               /\ "result" \in DOMAIN res[r].data
                    => res[r].data.result \in
                         { ToJson(JResult(IndexResult(DriverRows(k, req[r].body.sql)))) :
                             k \in {"some", "none"} }

\* C6 witness: two calls with different numeric ids and different SQL have both
\* been answered with results, one of them having completed while the other,
\* submitted earlier, was still pending.
C6_Witness ==
    \E r1 \in Reqs : \E r2 \in Reqs :
        /\ r1 # r2
        /\ IsRunQueryCall(r1) /\ IsRunQueryCall(r2)
        /\ req[r1].body.id = IdOf(r1) /\ req[r2].body.id = IdOf(r2)
        /\ req[r1].body.sql # req[r2].body.sql
        /\ req[r1].outcome[1] = "resolved" /\ req[r2].outcome[1] = "resolved"
        /\ req[r1].overtook /\ ~req[r2].overtook

\* C7: for every request the route has finished with, the response carries the
\* inbound id unchanged, on every path; when the inbound id is null or absent the
\* response id is null or absent.
C7_IdEchoedOnEveryPath ==
    \A r \in Reqs :
        Finished(r) =>
            IF req[r].body.id \in {JUndefined, JNull}
            THEN "id" \notin DOMAIN res[r].data \/ res[r].data.id = JNull
            ELSE "id" \in DOMAIN res[r].data /\ res[r].data.id = req[r].body.id

\* C8 as stated: a request whose method is present and is not callTool is
\* answered -32601 "Method not found", with no tool lookup and no statement.
C8_NotCallToolIsMethodNotFound ==
    \A r \in Reqs :
        (Finished(r) /\ req[r].body.defined
           /\ req[r].body.method # JUndefined /\ req[r].body.method # CallTool)
            => /\ HasJsonRpcError(r)
               /\ ErrorCode(r) = -32601
               /\ ErrorMessage(r) = JStr("Method not found")
               /\ req[r].lookups = 0 /\ req[r].executes = 0

\* C8 amended: a request whose method is a non-empty value other than callTool is
\* answered -32601 "Method not found"; a request whose method is absent or empty
\* is answered 400 "Invalid request"; in both cases no tool lookup is made and no
\* statement is submitted.
C8_TruthyMethodNotCallTool ==
    \A r \in Reqs :
        (Finished(r) /\ req[r].body.defined /\ req[r].body.method # CallTool)
            => /\ req[r].lookups = 0 /\ req[r].invoked = 0 /\ req[r].executes = 0
               /\ \A stmt \in stmts : stmt.req # r
               /\ IF Truthy(req[r].body.method)
                  THEN /\ HasJsonRpcError(r)
                       /\ ErrorCode(r) = -32601
                       /\ ErrorMessage(r) = JStr("Method not found")
                       /\ res[r].status = 200
                  ELSE /\ res[r].status = 400
                       /\ res[r].data = [error |-> JStr("Invalid request")]

\* C8 witness: a request with method "unknownMethod" has been answered -32601.
C8_Witness ==
    \E r \in Reqs :
        /\ req[r].phase = "done"
        /\ req[r].body.method = JStr("unknownMethod")
        /\ HasJsonRpcError(r)
        /\ ErrorCode(r) = -32601

\* C9: a callTool request naming an unregistered tool is answered with an error
\* whose code differs from -32601, -32000 and -32603, and no handler is invoked.
C9_ToolNotFoundHasOwnCode ==
    \A r \in Reqs :
        (req[r].phase = "done" /\ req[r].body.defined
           /\ req[r].body.method = CallTool /\ req[r].body.hasParams
           /\ req[r].body.name # RunQueryName)
            => /\ HasJsonRpcError(r)
               /\ ErrorCode(r) \notin {-32601, -32000, -32603}
               /\ req[r].invoked = 0

\* C10: a run_query call whose arguments do not conform to the schema (sql
\* missing or not a string) never has its handler invoked and nothing is
\* submitted to the warehouse for it.
C10_InvalidArgumentsNeverRun ==
    \A r \in Reqs :
        (req[r].phase # "idle" /\ req[r].body.defined
           /\ req[r].body.method = CallTool /\ req[r].body.hasParams
           /\ req[r].body.name = RunQueryName
           /\ (~req[r].body.hasArguments \/ ~IsString(req[r].body.sql)))
            => /\ req[r].invoked = 0
               /\ req[r].executes = 0

\* The messages the driver's Error objects carry.
DriverMessages == {ConnectError.message, ExecuteError.message}

\* The driver failed the invocation of r: the rejection holds a driver message,
\* as the Error's message or copied into another field.
WarehouseFailed(r) ==
    /\ req[r].outcome[1] = "rejected"
    /\ \/ req[r].outcome[2].message \in DriverMessages
       \/ req[r].outcome[2].error \in DriverMessages

\* C11: when the warehouse fails a run_query invocation, the error envelope
\* returned to the caller carries the driver's own failure message, not a
\* generic replacement text.
C11_DriverMessageCarried ==
    \A r \in Reqs :
        (Finished(r) /\ WarehouseFailed(r))
            => /\ HasJsonRpcError(r)
               /\ ErrorMessage(r) \in DriverMessages

\* The body written for r has member k, holding a value.
Populated(r, k) ==
    /\ k \in DOMAIN res[r].data
    /\ res[r].data[k] # JNull

\* C12: every envelope written by POST /mcp has exactly one of the fields
\* result and error populated: never both and never neither, on every path.
C12_ExactlyOneOfResultAndError ==
    \A r \in Reqs :
        (res[r].frames > 0 \/ DOMAIN res[r].data # {})
            => /\ DOMAIN res[r].data # {}
               /\ "result" \in DOMAIN res[r].data => Populated(r, "result")
               /\ "error" \in DOMAIN res[r].data => Populated(r, "error")
               /\ Populated(r, "result") # Populated(r, "error")

\* One request was answered with a result envelope, the other with an error one.
C12_Witness ==
    \E r1, r2 \in Reqs :
        /\ res[r1].ended /\ Populated(r1, "result")
        /\ res[r2].ended /\ Populated(r2, "error")
        /\ HasJsonRpcError(r2) /\ ErrorCode(r2) = -32000

\* C13: for every request answered in the event-stream encoding, the handler
\* writes exactly one complete frame and then ends the response; it never
\* writes a second frame or a partial frame, including when a failure occurs
\* after the success path has started writing.
C13_OneCompleteFrameThenEnd ==
    \A r \in Reqs :
        (Finished(r) /\ res[r].contentType = "text/event-stream")
            => /\ res[r].frames = 1
               /\ ~res[r].partial
               /\ res[r].ended

\* r1 and r2 carried the same request: equal bodies, the id left aside.
SameRequest(r1, r2) ==
    /\ req[r1].body.defined
    /\ [req[r1].body EXCEPT !.id = JNull] = [req[r2].body EXCEPT !.id = JNull]

\* r was answered with an error: a JSON-RPC error member or an HTTP error status.
AnsweredWithError(r) ==
    /\ Finished(r)
    /\ res[r].ended
    /\ HasJsonRpcError(r) \/ res[r].status >= 400

\* The error code r was answered with.
AnsweredCode(r) ==
    IF HasJsonRpcError(r) THEN <<"jsonrpc", ErrorCode(r)>> ELSE <<"http", res[r].status>>

\* C14: repeating an identical failing request, in any system state reachable
\* between the repetitions, yields the same error code each time.
C14_SameRequestSameErrorCode ==
    \A r1, r2 \in Reqs :
        (SameRequest(r1, r2) /\ AnsweredWithError(r1) /\ AnsweredWithError(r2))
            => AnsweredCode(r1) = AnsweredCode(r2)

\* The same run_query request failed twice, once on each side of the connect
\* callback of the shared connection.
C14_Witness ==
    \E r1, r2 \in Reqs :
        /\ r1 # r2
        /\ SameRequest(r1, r2)
        /\ IsRunQueryCall(r1)
        /\ AnsweredWithError(r1) /\ AnsweredWithError(r2)
        /\ req[r1].outcome[1] = "rejected" /\ req[r2].outcome[1] = "rejected"
        /\ conns[GlobalConnection].state # "connecting"
        /\ stmts = {}

\* v is a ToolResult with a single content block of type text.
IsSingleTextResult(v) ==
    /\ v[1] = "object"
    /\ Len(v[2]) = 1
    /\ v[2][1][1] = "content"
    /\ v[2][1][2][1] = "array"
    /\ Len(v[2][1][2][2]) = 1
    /\ LET block == v[2][1][2][2][1]
       IN /\ block[1] = "object"
          /\ Len(block[2]) = 2
          /\ block[2][1] = <<"type", JStr("text")>>
          /\ block[2][2][1] = "text"
          /\ block[2][2][2][1] = "text"

\* JSON.parse of the text of the block of a single-text ToolResult.
DeserializedText(v) == v[2][1][2][2][1][2][2][2][2]

\* The query of r succeeded: the complete callback ran without error.
QuerySucceeded(r) == req[r].rows # NoRows

\* The rows the claim expects back: R, or the empty sequence for no rows.
ExpectedRows(r) == IF req[r].rows = JUndefined THEN JArr(<< >>) ELSE req[r].rows

\* C15: a successful query returning rows R produces a ToolResult with a single
\* text content block whose text, when deserialized, equals R with row order and
\* field order preserved (the empty sequence when the driver returns no rows).
C15_RowsRoundTrip ==
    \A r \in Reqs :
        (Finished(r) /\ QuerySucceeded(r))
            => /\ req[r].outcome[1] = "resolved"
               /\ IsSingleTextResult(req[r].outcome[2])
               /\ DeserializedText(req[r].outcome[2]) = ExpectedRows(r)

\* The same property for the rows JSON.stringify accepts.
C15_SerializableRowsRoundTrip ==
    \A r \in Reqs :
        (Finished(r) /\ QuerySucceeded(r) /\ Serializable(req[r].rows))
            => /\ req[r].outcome[1] = "resolved"
               /\ IsSingleTextResult(req[r].outcome[2])
               /\ DeserializedText(req[r].outcome[2]) = ExpectedRows(r)

\* Opening the connection the invocation of r uses has failed.
ConnectionFailedFor(r) ==
    /\ req[r].conn # 0
    /\ IsString(req[r].sql)
    /\ conns[req[r].conn].state = "failed"

\* C16: when opening the warehouse connection fails, the SQL statement is never
\* submitted on that connection (execute is not called) and the invocation ends
\* with the connection error as its outcome.
C16_NoExecuteAfterConnectFailure ==
    \A r \in Reqs :
        ConnectionFailedFor(r)
            => /\ req[r].executes = 0
               /\ Finished(r) => req[r].outcome = <<"rejected", ConnectError>>

\* The release step of the invocation of r has reported an error.
ReleaseFailed(r) ==
    /\ req[r].conn # 0
    /\ conns[req[r].conn].state = "destroyFailed"

\* C17: in runQuery the outcome delivered to the caller is decided only by the
\* connect and execute results: a failure of the release step never changes a
\* success into a failure and never replaces the execute error.
C17_ReleaseFailureNotSurfaced ==
    \A r \in Reqs :
        (ReleaseFailed(r) /\ Finished(r))
            => /\ (QuerySucceeded(r) /\ Serializable(req[r].rows))
                    => /\ req[r].outcome[1] = "resolved"
                       /\ DeserializedText(req[r].outcome[2]) = ExpectedRows(r)
               /\ ~QuerySucceeded(r) => req[r].outcome = <<"rejected", ExecuteError>>

\* The release step failed for a successful invocation and for one whose
\* execute failed.
C17_Witness ==
    \E r1, r2 \in Reqs :
        /\ ReleaseFailed(r1) /\ req[r1].outcome[1] = "resolved"
        /\ ReleaseFailed(r2) /\ req[r2].outcome = <<"rejected", ExecuteError>>

\* transport.handleRequest threw while handling the request of r, and the
\* catch block of the route has run.
HandleRequestThrew(r) == req[r].route = "caught"

\* The request of r has ended: the route has run to its end and the transport
\* writes to the response no more.
RequestEnded(r) ==
    /\ req[r].route \in {"caught", "returned"}
    /\ req[r].transport = "finished"

\* The id the catch block answers with: the request's id, or null.
CaughtId(r) ==
    IF req[r].body.defined /\ req[r].body.id # JUndefined THEN req[r].body.id ELSE JNull

\* C18: when transport.handleRequest throws while handling POST /mcp, the route
\* answers with a JSON-RPC error of code -32603 carrying the request's id (or
\* null) if no response headers have been sent yet, and the request never ends
\* without a terminated response.
C18_ThrowAnsweredAndTerminated ==
    \A r \in Reqs :
        HandleRequestThrew(r)
            => /\ res[r].status # 200
                    => /\ HasJsonRpcError(r)
                       /\ ErrorCode(r) = -32603
                       /\ res[r].data.id = CaughtId(r)
               /\ RequestEnded(r) => res[r].headersSent /\ res[r].ended

\* The first half alone: a throw before any head was written is answered 500
\* with code -32603 and the request's id or null.
C18_ThrowBeforeHeadAnswered ==
    \A r \in Reqs :
        (HandleRequestThrew(r) /\ res[r].status # 200)
            => /\ res[r].status = 500 /\ res[r].ended
               /\ HasJsonRpcError(r)
               /\ ErrorCode(r) = -32603
               /\ res[r].data.id = CaughtId(r)

\* A driver callback given for the invocation of r has not fired yet.
CallbackPending(r) == \E stmt \in stmts : CallbackOwner(stmt) = r

\* C19: once the driver has invoked every callback it was given for a run_query
\* invocation and the route has run on from its `await`, the invocation has
\* settled and its request has received a response that was ended: an
\* invocation stays incomplete only while a driver callback has not fired.
C19_CompleteOnceCallbacksFired ==
    \A r \in Reqs :
        (IsRunQueryCall(r) /\ ~CallbackPending(r) /\ req[r].phase # "continuing")
            => /\ req[r].outcome[1] \in {"resolved", "rejected"}
               /\ res[r].headersSent /\ res[r].ended

\* The settling half under the fairness the claim assumes: in part_002 every
\* invocation that waits for a driver callback eventually settles.
C19_GatewaySettles ==
    \A r \in Reqs :
        (req[r].phase \in {"awaitConnect", "awaitExecute", "continuing"})
            ~> (req[r].outcome[1] \in {"resolved", "rejected"})

\* The execute attempt of the invocation of r failed.
ExecuteFailed(r) ==
    /\ req[r].phase = "done"
    /\ req[r].executes > 0
    /\ ~QuerySucceeded(r)

\* C20: each run_query invocation makes at most one connect attempt and at most
\* one execute attempt: after a connect or execute failure nothing is retried
\* and the failure is surfaced as that invocation's outcome.
C20_SingleAttempt ==
    \A r \in Reqs :
        req[r].creates > 0
            => /\ req[r].creates = 1
               /\ conns[req[r].conn].connects = 1
               /\ req[r].executes <= 1
               /\ conns[req[r].conn].executes <= 1
               /\ ConnectionFailedFor(r)
                    => /\ req[r].phase \in {"continuing", "done"}
                       /\ req[r].executes = 0
                       /\ Finished(r) => req[r].outcome = <<"rejected", ConnectError>>
               /\ ExecuteFailed(r)
                    => req[r].outcome = <<"rejected", ExecuteError>>

\* One invocation ended on a connect failure and another on an execute failure.
C20_Witness ==
    \E r1, r2 \in Reqs :
        /\ req[r1].creates > 0 /\ ConnectionFailedFor(r1) /\ req[r1].phase = "done"
        /\ req[r2].creates > 0 /\ ExecuteFailed(r2)

====
